---------------------------- MODULE Spec2Model ----------------------------
(***************************************************************************)
(* A model of two subsystems of mirakc:                                    *)
(*                                                                         *)
(*   - the Broadcaster actor of src/src/broadcaster.rs, which fans the     *)
(*     chunks of one tuner session out to its subscribers through bounded  *)
(*     tokio mpsc channels and stops itself on upstream EOS, upstream      *)
(*     error or inactivity;                                                *)
(*   - the EitCollector of src/src/eit_feeder.rs, which walks a list of    *)
(*     channels, reads EIT sections from a pipeline fed by a tuner stream  *)
(*     and sends them in batches to the EPG actor.                         *)
(*                                                                         *)
(* The two subsystems share no state; Spec runs the Broadcaster and        *)
(* SpecCollector runs the collector.                                       *)
(***************************************************************************)
EXTENDS Integers, Sequences, FiniteSets, TLC

(***************************************************************************)
(* Bounds of the model.                                                    *)
(***************************************************************************)
\* Broadcaster::MAX_CHUNKS (broadcaster.rs:32) is 1000 in the program; the
\* model runs with a small capacity so that a full outbox is reachable.
MAX_CHUNKS == 1
\* number of chunks the chunk stream delivers before the model stops feeding
MaxChunks == 2
\* number of Subscribe requests handled in one run
MaxStreams == 2
\* the clock stops advancing at MaxTime
MaxTime == 2
\* time_limit is drawn from 1..MaxTimeLimit at construction
MaxTimeLimit == 1
\* EitCollector::UPDATE_CHUNK_SIZE (eit_feeder.rs:127) is 32 in the program;
\* the model runs with a small batch so that full and partial batches both
\* occur within a few lines.
UPDATE_CHUNK_SIZE == 2
\* number of channels the collector is given
NumChannels == 2
\* number of EIT sections the pipelines of one run put out, all channels
\* together
MaxLines == 5
\* number of services the Epg actor returns at most
MaxServices == 3

VARIABLES
    state,          \* actix lifecycle of the Broadcaster actor
    subscribers,    \* Broadcaster.subscribers: Vec<Subscriber>
    time_limit,     \* Broadcaster.time_limit
    last_received,  \* Broadcaster.last_received
    chans,          \* the mpsc channels created by subscribe(), with the
                    \* BroadcasterStream that owns each receiver
    fed,            \* number of chunks the chunk stream has delivered
    src,            \* what the chunk stream delivered last: "open" while it
                    \* delivers chunks, "error" or "eos" once it delivered
                    \* that, "dropped" once the actor is gone
    now,            \* Instant::now()
    next_tick,      \* deadline of the run_interval timer
    cpc,            \* where collect_schedules / collect_eits_in_channel is
    chan_idx,       \* position of the for loop in self.channels
    total,          \* num_sections of collect_schedules
    tuners,         \* the channels whose tuner stream is alive
    pipeline,       \* TRUE while the pipeline (the child processes) is alive
    pumps,          \* the channels whose task tokio::spawn(stream.pipe(input))
                    \* is running
    sections,       \* the batch being filled
    triples,        \* the HashSet of service triples
    num_sections,   \* num_sections of collect_eits_in_channel
    lines,          \* per channel, the sections parsed from the output so far
    epg,            \* the messages sent to the Epg actor, in send order
    fpc,            \* where feed_eit_sections is
    services,       \* the services the Epg actor returned
    sv_idx,         \* position of the for loop in services
    map,            \* the HashMap<NetworkId, EpgChannel>
    channels        \* the Vec<EpgChannel> handed to EitCollector::new

bvars == <<state, subscribers, time_limit, last_received, chans, fed, src,
           now, next_tick>>

cvars == <<cpc, chan_idx, total, tuners, pipeline, pumps, sections, triples,
           num_sections, lines, epg>>

fvars == <<fpc, services, sv_idx, map, channels>>

vars == <<bvars, cvars, fvars>>

\* SubscriberId values the requests carry
Ids == {1, 2}

\* The i-th chunk of the source is written i: chunks are told apart by their
\* position in the source, which stands for their bytes.

(***************************************************************************)
(* tokio::sync::mpsc, bounded.  A channel k is the record chans[k]:        *)
(*   buf    the queue of chunks sent and not yet received                  *)
(*   rx     TRUE while the Receiver (the BroadcasterStream) is alive       *)
(*   out    the items the BroadcasterStream has yielded so far             *)
(*   eos    TRUE once the BroadcasterStream yielded None                   *)
(*   from   the value of fed when the channel was created                  *)
(* Its only Sender lives in the Subscriber that subscribers holds, so the  *)
(* sender of channel k is alive exactly while some subscriber names k.     *)
(***************************************************************************)
SenderAlive(k) == \E i \in 1..Len(subscribers) : subscribers[i].sender = k

\* a new channel that starts with the chunk handled last in its queue
NewChannel_Replay == [buf |-> IF fed > 0 THEN <<fed>> ELSE <<>>, rx |-> TRUE,
                      out |-> <<>>, eos |-> FALSE, from |-> fed]

\* mpsc::channel(Self::MAX_CHUNKS) and BroadcasterStream::new(receiver)
NewChannel == [buf |-> <<>>, rx |-> TRUE, out |-> <<>>, eos |-> FALSE,
               from |-> fed]

\* a channel whose Receiver was dropped
ClosedChannel == [buf |-> <<>>, rx |-> FALSE, out |-> <<>>, eos |-> FALSE,
                  from |-> 0]

\* subscriber.sender.try_send(chunk.clone()): the result of the match
TrySendResult(ch) ==
    IF ~ch.rx THEN "Closed"
    ELSE IF Len(ch.buf) >= MAX_CHUNKS THEN "Full"
    ELSE "Ok"

\* try_send with the capacity test off by one: the last free slot is refused
try_send_OffByOne(ch, chunk) ==
    IF ch.rx /\ Len(ch.buf) + 1 < MAX_CHUNKS
    THEN [ch EXCEPT !.buf = Append(@, chunk)]
    ELSE ch

\* try_send that queues the new chunk in front of the older ones
try_send_Front(ch, chunk) ==
    IF TrySendResult(ch) = "Ok"
    THEN [ch EXCEPT !.buf = <<chunk>> \o @]
    ELSE ch

\* subscriber.sender.try_send(chunk.clone()): the channel afterwards
try_send(ch, chunk) ==
    IF TrySendResult(ch) = "Ok"
    THEN [ch EXCEPT !.buf = Append(@, chunk)]
    ELSE ch

\* broadcast that leaves its loop at the first subscriber it cannot send to
RECURSIVE broadcast_Break(_, _, _)
broadcast_Break(subs, cs, chunk) ==
    IF subs = <<>> THEN cs
    ELSE IF TrySendResult(cs[Head(subs).sender]) # "Ok" THEN cs
    ELSE broadcast_Break(Tail(subs),
                         [cs EXCEPT ![Head(subs).sender] = try_send(@, chunk)],
                         chunk)

\* the for loop of Broadcaster::broadcast over self.subscribers
RECURSIVE broadcast(_, _, _)
broadcast(subs, cs, chunk) ==
    IF subs = <<>> THEN cs
    ELSE broadcast(Tail(subs),
                   [cs EXCEPT ![Head(subs).sender] = try_send(@, chunk)],
                   chunk)

\* retain that stops filtering after the first subscriber it removes
RECURSIVE retain_First(_, _)
retain_First(subs, id) ==
    IF subs = <<>> THEN <<>>
    ELSE IF Head(subs).id # id
         THEN <<Head(subs)>> \o retain_First(Tail(subs), id)
         ELSE Tail(subs)

\* self.subscribers.retain(|subscriber| subscriber.id != id)
RECURSIVE retain(_, _)
retain(subs, id) ==
    IF subs = <<>> THEN <<>>
    ELSE IF Head(subs).id # id
         THEN <<Head(subs)>> \o retain(Tail(subs), id)
         ELSE retain(Tail(subs), id)

\* the timeout test that also fires when exactly the limit has elapsed
TimedOut_AtLimit == now - last_received >= time_limit

\* the timeout test against twice the limit
TimedOut_Twice == now - last_received > 2 * time_limit

\* elapsed > self.time_limit in check_timeout
TimedOut == now - last_received > time_limit

\* BroadcasterStream::poll_next wraps a received chunk as Ok(chunk)
StreamItem(chunk) == <<"Ok", chunk>>

(***************************************************************************)
(* Initial state: Broadcaster::new has run inside Broadcaster::create, the *)
(* actor has not started yet.                                              *)
(***************************************************************************)
InitBroadcaster ==
    /\ state = "Starting"
    /\ subscribers = <<>>
    /\ time_limit \in 1..MaxTimeLimit
    /\ now = 0
    /\ last_received = now
    /\ chans = <<>>
    /\ fed = 0
    /\ src = "open"
    /\ next_tick = 0


\* EitCollector::new and the start of collect_schedules
InitCollector ==
    /\ cpc = "start"
    /\ chan_idx = 1
    /\ total = 0
    /\ tuners = {}
    /\ pipeline = FALSE
    /\ pumps = {}
    /\ sections = <<>>
    /\ triples = {}
    /\ num_sections = 0
    /\ lines = [c \in 1..NumChannels |-> <<>>]
    /\ epg = <<>>

\* the entry of feed_eit_sections
InitFeeder ==
    /\ fpc = "query"
    /\ services = <<>>
    /\ sv_idx = 1
    /\ map = <<>>
    /\ channels = <<>>

Init == InitBroadcaster /\ InitCollector /\ InitFeeder

(***************************************************************************)
(* The Broadcaster's handlers.  actix runs them one at a time, and runs    *)
(* none once ctx.stop() was called.                                        *)
(***************************************************************************)
\* Actor::started: ctx.run_interval(self.time_limit, Self::check_timeout)
Started ==
    /\ state = "Starting"
    /\ state' = "Running"
    /\ next_tick' = now + time_limit
    /\ UNCHANGED <<fvars, cvars, subscribers, time_limit, last_received, chans, fed, src, now>>

\* HandleSubscribe that hands out no second subscription for an id in the list
HandleSubscribe_Dedup(id) ==
    /\ state = "Running"
    /\ Len(chans) < MaxStreams
    /\ chans' = Append(chans, NewChannel)
    /\ subscribers' =
          IF \E i \in 1..Len(subscribers) : subscribers[i].id = id
          THEN subscribers
          ELSE Append(subscribers, [id |-> id, sender |-> Len(chans) + 1])
    /\ UNCHANGED <<fvars, cvars, state, time_limit, last_received, fed, src, now, next_tick>>

\* Handler<SubscribeMessage>::handle -> Broadcaster::subscribe
HandleSubscribe(id) ==
    /\ state = "Running"
    /\ Len(chans) < MaxStreams
    /\ chans' = Append(chans, NewChannel)
    /\ subscribers' = Append(subscribers, [id |-> id, sender |-> Len(chans) + 1])
    /\ UNCHANGED <<fvars, cvars, state, time_limit, last_received, fed, src, now, next_tick>>

\* HandleUnsubscribe that counts the request as activity of the source
HandleUnsubscribe_Touch(id) ==
    /\ state = "Running"
    /\ subscribers' = retain(subscribers, id)
    /\ last_received' = now
    /\ UNCHANGED <<fvars, cvars, state, time_limit, chans, fed, src, now, next_tick>>

\* Handler<UnsubscribeMessage>::handle -> Broadcaster::unsubscribe
HandleUnsubscribe(id) ==
    /\ state = "Running"
    /\ subscribers' = retain(subscribers, id)
    /\ UNCHANGED <<fvars, cvars, state, time_limit, last_received, chans, fed, src, now, next_tick>>

\* HandleChunk that records the time only when some subscriber took the chunk
HandleChunk_StampOnSend ==
    /\ state = "Running"
    /\ fed < MaxChunks
    /\ fed' = fed + 1
    /\ chans' = broadcast(subscribers, chans, fed + 1)
    /\ last_received' = IF chans' # chans THEN now ELSE last_received
    /\ UNCHANGED <<fvars, cvars, state, subscribers, time_limit, src, now, next_tick>>

\* HandleChunk that removes the subscribers whose receiver is closed
HandleChunk_DropClosed ==
    /\ state = "Running"
    /\ fed < MaxChunks
    /\ fed' = fed + 1
    /\ chans' = broadcast(subscribers, chans, fed + 1)
    /\ subscribers' = SelectSeq(subscribers, LAMBDA sb : chans[sb.sender].rx)
    /\ last_received' = now
    /\ UNCHANGED <<fvars, cvars, state, time_limit, src, now, next_tick>>

\* StreamHandler::handle with Ok(chunk) -> Broadcaster::broadcast
HandleChunk ==
    /\ state = "Running"
    /\ fed < MaxChunks
    /\ fed' = fed + 1
    /\ chans' = broadcast(subscribers, chans, fed + 1)
    /\ last_received' = now
    /\ UNCHANGED <<fvars, cvars, state, subscribers, time_limit, src, now, next_tick>>

\* HandleError that logs the error and goes on
HandleError_Continue ==
    /\ state = "Running"
    /\ src = "open"
    /\ src' = "error"
    /\ UNCHANGED <<fvars, cvars, state, subscribers, time_limit, last_received, chans, fed, now, next_tick>>

\* StreamHandler::handle with Err(err): ctx.stop()
HandleError ==
    /\ state = "Running"
    /\ src' = "error"
    /\ state' = "Stopping"
    /\ UNCHANGED <<fvars, cvars, subscribers, time_limit, last_received, chans, fed, now, next_tick>>

\* StreamHandler::finished: ctx.stop()
Finished ==
    /\ state = "Running"
    /\ src' = "eos"
    /\ state' = "Stopping"
    /\ UNCHANGED <<fvars, cvars, subscribers, time_limit, last_received, chans, fed, now, next_tick>>

\* Broadcaster::check_timeout, run by the interval timer at its deadline
check_timeout ==
    /\ state = "Running"
    /\ now >= next_tick
    /\ next_tick' = next_tick + time_limit
    /\ state' = IF TimedOut THEN "Stopping" ELSE "Running"
    /\ UNCHANGED <<fvars, cvars, subscribers, time_limit, last_received, chans, fed, src, now>>

\* Stopped that throws away what the outboxes still hold
Stopped_DropQueued ==
    /\ state = "Stopping"
    /\ state' = "Stopped"
    /\ subscribers' = <<>>
    /\ chans' = [k \in 1..Len(chans) |-> [chans[k] EXCEPT !.buf = <<>>]]
    /\ next_tick' = 0
    /\ src' = "dropped"
    /\ UNCHANGED <<fvars, cvars, time_limit, last_received, fed, now>>

\* Stopped that leaks the subscribers, and with them the senders
Stopped_KeepSenders ==
    /\ state = "Stopping"
    /\ state' = "Stopped"
    /\ next_tick' = 0
    /\ src' = "dropped"
    /\ UNCHANGED <<fvars, cvars, subscribers, time_limit, last_received, chans, fed, now>>

\* After ctx.stop(): Actor::stopping (the default, Running::Stop), then
\* Actor::stopped, then the actor is dropped, and its subscribers, its
\* interval timer and its chunk stream with it.
Stopped ==
    /\ state = "Stopping"
    /\ state' = "Stopped"
    /\ subscribers' = <<>>
    /\ next_tick' = 0
    /\ src' = "dropped"
    /\ UNCHANGED <<fvars, cvars, time_limit, last_received, chans, fed, now>>

(***************************************************************************)
(* The holders of the streams, and the clock.                              *)
(***************************************************************************)
\* poll_next that yields the head of the queue and leaves it queued
poll_next_NoPop(k) ==
    /\ state # "Stopping"
    /\ chans[k].rx
    /\ ~chans[k].eos
    /\ chans[k].buf # <<>>
    /\ Len(chans[k].out) < MaxChunks
    /\ chans' = [chans EXCEPT ![k].out = Append(@, StreamItem(Head(chans[k].buf)))]
    /\ UNCHANGED <<fvars, cvars, state, subscribers, time_limit, last_received, fed, src, now, next_tick>>

\* poll_next that takes an empty outbox for the end of the stream
poll_next_EndOnEmpty(k) ==
    /\ state # "Stopping"
    /\ chans[k].rx
    /\ ~chans[k].eos
    /\ \/ /\ chans[k].buf # <<>>
          /\ chans' = [chans EXCEPT ![k].buf = Tail(@),
                                    ![k].out = Append(@, StreamItem(Head(chans[k].buf)))]
       \/ /\ chans[k].buf = <<>>
          /\ chans' = [chans EXCEPT ![k].eos = TRUE]
    /\ UNCHANGED <<fvars, cvars, state, subscribers, time_limit, last_received, fed, src, now, next_tick>>

\* BroadcasterStream::poll_next on stream k, when it returns Ready.  The
\* context finishes a stopping actor in the poll in which its handler called
\* ctx.stop(), so no holder runs while the actor is Stopping.
poll_next(k) ==
    /\ state # "Stopping"
    /\ chans[k].rx
    /\ ~chans[k].eos
    /\ \/ /\ chans[k].buf # <<>>
          /\ chans' = [chans EXCEPT ![k].buf = Tail(@),
                                    ![k].out = Append(@, StreamItem(Head(chans[k].buf)))]
       \/ /\ chans[k].buf = <<>>
          /\ ~SenderAlive(k)
          /\ chans' = [chans EXCEPT ![k].eos = TRUE]
    /\ UNCHANGED <<fvars, cvars, state, subscribers, time_limit, last_received, fed, src, now, next_tick>>

\* The holder drops stream k: the Receiver closes the channel and drains it.
\* A dropped stream yields nothing further and nobody reads what it yielded,
\* so its record is cleared.  Dropping a stream that has ended changes
\* nothing and is left out.
DropStream(k) ==
    /\ state # "Stopping"
    /\ chans[k].rx
    /\ ~chans[k].eos
    /\ chans' = [chans EXCEPT ![k] = ClosedChannel]
    /\ UNCHANGED <<fvars, cvars, state, subscribers, time_limit, last_received, fed, src, now, next_tick>>

\* Time passes while the actor runs and its timer is not due.
Tick ==
    /\ state = "Running"
    /\ now < next_tick
    /\ now < MaxTime
    /\ now' = now + 1
    /\ UNCHANGED <<fvars, cvars, state, subscribers, time_limit, last_received, chans, fed, src, next_tick>>

Next ==
    \/ Started
    \/ \E id \in Ids : HandleSubscribe(id)
    \/ \E id \in Ids : HandleUnsubscribe(id)
    \/ HandleChunk
    \/ HandleError
    \/ Finished
    \/ check_timeout
    \/ Stopped
    \/ \E k \in 1..Len(chans) : poll_next(k)
    \/ \E k \in 1..Len(chans) : DropStream(k)
    \/ Tick

Spec == Init /\ [][Next]_vars

\* The runtime finishes an actor that called ctx.stop(), and the holder of a
\* stream keeps polling it for as long as it holds it.
Fairness ==
    /\ WF_vars(Stopped)
    /\ \A n \in 1..MaxStreams : WF_vars(n <= Len(chans) /\ poll_next(n))

SpecLive == Spec /\ Fairness

(***************************************************************************)
(* The EIT collector (eit_feeder.rs).                                      *)
(***************************************************************************)
\* the service triples the sections of a run may carry
Triples == {<<1, 1, 1>>, <<1, 1, 2>>, <<1, 2, 1>>}

\* An EitSection parsed from line n of a channel's output.  The fields other
\* than the three ids are told apart by the line they came from.
EitSection(t, n) ==
    [original_network_id |-> t[1], transport_stream_id |-> t[2],
     service_id |-> t[3], line |-> n]

\* service_triple that leaves the transport stream id out
service_triple_NoTs(eit) == <<eit.original_network_id, 0, eit.service_id>>

\* EitSection::service_triple
service_triple(eit) ==
    <<eit.original_network_id, eit.transport_stream_id, eit.service_id>>

\* triples.into_iter().collect(): the elements of the HashSet, each once, in
\* an order the HashSet chooses
IntoVec(S) ==
    {v \in [1..Cardinality(S) -> S] : \A x \in S : \E i \in DOMAIN v : v[i] = x}

UpdateSchedulesMessage(c, ss) == [type |-> "UpdateSchedules", channel |-> c, sections |-> ss]

FlushSchedulesMessage(c, ts) == [type |-> "FlushSchedules", channel |-> c, triples |-> ts]

\* tuner_manager.send(StartStreamingMessage {..}).await??
StartStreaming ==
    /\ cpc = "start"
    /\ chan_idx <= NumChannels
    /\ \/ /\ tuners' = tuners \cup {chan_idx}
          /\ cpc' = "render"
       \/ /\ cpc' = "failed"
          /\ UNCHANGED tuners
    /\ sections' = <<>>
    /\ triples' = {}
    /\ num_sections' = 0
    /\ UNCHANGED <<fvars, bvars, chan_idx, total, pipeline, pumps, lines, epg>>

\* mustache::compile_str(command)? ... template.render_data_to_string(&data)?
\* On an error the function returns and the stream is dropped.
Render ==
    /\ cpc = "render"
    /\ \/ /\ cpc' = "spawn"
          /\ UNCHANGED tuners
       \/ /\ cpc' = "failed"
          /\ tuners' = tuners \ {chan_idx}
    /\ UNCHANGED <<fvars, bvars, chan_idx, total, pipeline, pumps, sections, triples,
                   num_sections, lines, epg>>

\* command_util::spawn_pipeline(..)?, take_endpoints, tokio::spawn(stream.pipe(input))
Spawn ==
    /\ cpc = "spawn"
    /\ \/ /\ cpc' = "read"
          /\ pipeline' = TRUE
          /\ pumps' = pumps \cup {chan_idx}
          /\ UNCHANGED tuners
       \/ /\ cpc' = "failed"
          /\ tuners' = tuners \ {chan_idx}
          /\ UNCHANGED <<pipeline, pumps>>
    /\ UNCHANGED <<fvars, bvars, chan_idx, total, sections, triples, num_sections,
                   lines, epg>>

\* one turn of the while loop: read_line gave a line that parses to eit
ReadSection(t) ==
    /\ cpc = "read"
    /\ total + num_sections < MaxLines
    /\ LET eit == EitSection(t, num_sections + 1)
           pushed == Append(sections, eit)
       IN /\ triples' = triples \cup {service_triple(eit)}
          /\ IF Len(pushed) = UPDATE_CHUNK_SIZE
             THEN /\ epg' = Append(epg, UpdateSchedulesMessage(chan_idx, pushed))
                  /\ sections' = <<>>
             ELSE /\ sections' = pushed
                  /\ UNCHANGED epg
          /\ lines' = [lines EXCEPT ![chan_idx] = Append(@, eit)]
    /\ num_sections' = num_sections + 1
    /\ UNCHANGED <<fvars, bvars, cpc, chan_idx, total, tuners, pipeline, pumps>>

\* ReadFails that sends the batch being filled before it returns the error
ReadFails_SendPartial ==
    /\ cpc = "read"
    /\ cpc' = "failed"
    /\ pipeline' = FALSE
    /\ IF sections # <<>>
       THEN epg' = Append(epg, UpdateSchedulesMessage(chan_idx, sections))
       ELSE UNCHANGED epg
    /\ UNCHANGED <<fvars, bvars, chan_idx, total, tuners, pumps, sections, triples,
                   num_sections, lines>>

\* read_line(..).await? or serde_json::from_str(..)? returned an error: the
\* function returns, which drops the pipeline and detaches the pump task
ReadFails ==
    /\ cpc = "read"
    /\ cpc' = "failed"
    /\ pipeline' = FALSE
    /\ UNCHANGED <<fvars, bvars, chan_idx, total, tuners, pumps, sections, triples,
                   num_sections, lines, epg>>

\* EndOfOutput that forgets the partial batch
EndOfOutput_NoTail ==
    /\ cpc = "read"
    /\ cpc' = "drop"
    /\ UNCHANGED <<fvars, bvars, chan_idx, total, tuners, pipeline, pumps, sections,
                   triples, num_sections, lines, epg>>

\* read_line returned 0: the loop ends, and a partial batch is sent
EndOfOutput ==
    /\ cpc = "read"
    /\ cpc' = "drop"
    /\ IF sections # <<>>
       THEN epg' = Append(epg, UpdateSchedulesMessage(chan_idx, sections))
       ELSE UNCHANGED epg
    /\ UNCHANGED <<fvars, bvars, chan_idx, total, tuners, pipeline, pumps, sections,
                   triples, num_sections, lines>>

\* drop(pipeline)
DropPipeline ==
    /\ cpc = "drop"
    /\ cpc' = "await"
    /\ pipeline' = FALSE
    /\ UNCHANGED <<fvars, bvars, chan_idx, total, tuners, pumps, sections, triples,
                   num_sections, lines, epg>>

\* The pump task of channel c ends: the tuner stream ended or the pipeline's
\* input is closed.  The task drops the stream, which releases the tuner.
PumpEnds(c) ==
    /\ c \in pumps
    /\ pumps' = pumps \ {c}
    /\ tuners' = tuners \ {c}
    /\ UNCHANGED <<fvars, bvars, cpc, chan_idx, total, pipeline, sections, triples,
                   num_sections, lines, epg>>

\* AwaitPump that does not wait for the task
AwaitPump_NoWait ==
    /\ cpc = "await"
    /\ cpc' = "flush"
    /\ UNCHANGED <<fvars, bvars, chan_idx, total, tuners, pipeline, pumps, sections,
                   triples, num_sections, lines, epg>>

\* let _ = handle.await
AwaitPump ==
    /\ cpc = "await"
    /\ chan_idx \notin pumps
    /\ cpc' = "flush"
    /\ UNCHANGED <<fvars, bvars, chan_idx, total, tuners, pipeline, pumps, sections,
                   triples, num_sections, lines, epg>>

\* epg.do_send(FlushSchedulesMessage {..}); Ok(num_sections); then the next
\* turn of the for loop of collect_schedules, or its end
Flush ==
    /\ cpc = "flush"
    /\ \E v \in IntoVec(triples) :
         epg' = Append(epg, FlushSchedulesMessage(chan_idx, v))
    /\ total' = total + num_sections
    /\ chan_idx' = chan_idx + 1
    /\ cpc' = IF chan_idx = NumChannels THEN "done" ELSE "start"
    /\ UNCHANGED <<fvars, bvars, tuners, pipeline, pumps, sections, triples,
                   num_sections, lines>>

\* What the future of collect_schedules resolves to: Ok(()) after the for
\* loop (the unit value carries nothing, so the tuple has no second element),
\* the error that a `?` propagated, nothing while it runs.
collect_schedules ==
    IF cpc = "done" THEN <<"Ok">>
    ELSE IF cpc = "failed" THEN <<"Err">>
    ELSE <<"Pending">>

NextCollector ==
    \/ StartStreaming
    \/ Render
    \/ Spawn
    \/ \E t \in Triples : ReadSection(t)
    \/ ReadFails
    \/ EndOfOutput
    \/ DropPipeline
    \/ \E c \in 1..NumChannels : PumpEnds(c)
    \/ AwaitPump
    \/ Flush

SpecCollector == Init /\ [][NextCollector]_vars

(***************************************************************************)
(* The EIT feeder (eit_feeder.rs): feed_eit_sections up to the             *)
(* construction of the collector.                                          *)
(***************************************************************************)
NetworkIds == {1, 2}

ServiceIds == {1, 2}

\* The channel records the services of a query may carry.  The fields are
\* those of the EpgChannel built in feed_eit_sections; the two records differ
\* in every field the grouping reads, and one has excluded services.
EpgChannels ==
    {[name |-> "A", channel_type |-> "GR", channel |-> "27",
      extra_args |-> "", services |-> <<>>, excluded_services |-> <<>>],
     [name |-> "B", channel_type |-> "BS", channel |-> "BS15",
      extra_args |-> "--lnb", services |-> <<1, 2>>, excluded_services |-> <<2>>]}

\* the fields of an EpgService that feed_eit_sections reads
EpgServices == [nid : NetworkIds, sid : ServiceIds, channel : EpgChannels]

\* the entry API that replaces the channel of a network id already present
entry_Insert(m, sv) ==
    [n \in DOMAIN m \cup {sv.nid} |->
        IF n = sv.nid
        THEN [name |-> sv.channel.name,
              channel_type |-> sv.channel.channel_type,
              channel |-> sv.channel.channel,
              extra_args |-> sv.channel.extra_args,
              services |-> <<sv.sid>>,
              excluded_services |-> <<>>]
        ELSE m[n]]

\* map.entry(sv.nid).and_modify(|ch| ch.services.push(sv.sid))
\*    .or_insert(EpgChannel {..})
entry(m, sv) ==
    IF sv.nid \in DOMAIN m
    THEN [m EXCEPT ![sv.nid].services = Append(@, sv.sid)]
    ELSE [n \in DOMAIN m \cup {sv.nid} |->
            IF n = sv.nid
            THEN [name |-> sv.channel.name,
                  channel_type |-> sv.channel.channel_type,
                  channel |-> sv.channel.channel,
                  extra_args |-> sv.channel.extra_args,
                  services |-> <<sv.sid>>,
                  excluded_services |-> <<>>]
            ELSE m[n]]

\* epg.send(QueryServicesMessage).await??
QueryServices ==
    /\ fpc = "query"
    /\ \/ /\ \E n \in 0..MaxServices : services' \in [1..n -> EpgServices]
          /\ fpc' = "loop"
       \/ /\ fpc' = "failed"
          /\ UNCHANGED services
    /\ UNCHANGED <<bvars, cvars, sv_idx, map, channels>>

\* one turn of `for sv in services.iter()`
GroupService ==
    /\ fpc = "loop"
    /\ sv_idx <= Len(services)
    /\ map' = entry(map, services[sv_idx])
    /\ sv_idx' = sv_idx + 1
    /\ UNCHANGED <<bvars, cvars, fpc, services, channels>>

\* map.values().cloned().collect(), in the order the HashMap iterates, and
\* EitCollector::new(command, channels, ..)
CollectChannels ==
    /\ fpc = "loop"
    /\ sv_idx > Len(services)
    /\ \E order \in IntoVec(DOMAIN map) :
         channels' = [i \in 1..Len(order) |-> map[order[i]]]
    /\ fpc' = "collect"
    /\ UNCHANGED <<bvars, cvars, services, sv_idx, map>>

NextFeeder ==
    \/ QueryServices
    \/ GroupService
    \/ CollectChannels

SpecFeeder == Init /\ [][NextFeeder]_vars

(***************************************************************************)
(* Properties of the Broadcaster.                                          *)
(***************************************************************************)
IsPrefix(s, t) == Len(s) <= Len(t) /\ SubSeq(t, 1, Len(s)) = s

\* the chunks stream k has yielded, followed by the chunks still in its outbox
Accepted(ch) == [i \in 1..Len(ch.out) |-> ch.out[i][2]] \o ch.buf

\* what stream k has yielded and will yield from its outbox, as stream items
Delivered(ch) == ch.out \o [i \in 1..Len(ch.buf) |-> <<"Ok", ch.buf[i]>>]

\* a step in which the Broadcaster handles a chunk
FanOutStep == fed' = fed + 1

\* the channels the subscriber list names
Subscribed == {subscribers[i].sender : i \in 1..Len(subscribers)}

HasRoom(ch) == ch.rx /\ Len(ch.buf) < MAX_CHUNKS

\* C1: when the Broadcaster handles a chunk c, every subscriber in the list
\* whose outbox holds fewer than MAX_CHUNKS chunks and whose receiver is open
\* gets c appended to its outbox; and while a stream is alive, what it has
\* yielded followed by what its outbox holds only grows at the end, so c is
\* yielded unchanged, after everything accepted before it.
C1_FanOutDelivery ==
    [][/\ FanOutStep =>
            \A k \in Subscribed :
                HasRoom(chans[k]) =>
                    /\ chans'[k].buf = Append(chans[k].buf, fed')
                    /\ Delivered(chans'[k]) =
                           Append(Delivered(chans[k]), <<"Ok", fed'>>)
       /\ \A k \in 1..Len(chans) :
            chans'[k].rx => IsPrefix(Delivered(chans[k]), Delivered(chans'[k]))
       /\ \A k \in 1..Len(chans) :
            Len(chans'[k].out) > Len(chans[k].out) =>
                /\ chans[k].buf # <<>>
                /\ chans'[k].out = Append(chans[k].out, <<"Ok", Head(chans[k].buf)>>)
      ]_vars

\* C1 witness: two subscribers with open receivers have both yielded chunk 1
C1_Witness ==
    /\ Len(chans) >= 2
    /\ \A k \in 1..2 : chans[k].rx /\ chans[k].out = << <<"Ok", 1>> >>

StrictlyIncreasing(s) == \A i, j \in 1..Len(s) : i < j => s[i] < s[j]

Min(a, b) == IF a < b THEN a ELSE b

\* C3: a subscriber whose outbox is full when a chunk is fanned out loses
\* that chunk only: its outbox and the subscriber list are left as they
\* were, every other subscriber with room receives the chunk in the same
\* step, and a running Broadcaster can always take the next chunk.  A
\* subscriber that never consumed holds exactly the first MAX_CHUNKS chunks
\* offered to it.
C3_SlowSubscriberIsolation ==
    /\ [](state = "Running" /\ fed < MaxChunks => ENABLED HandleChunk)
    /\ [](\A k \in Subscribed :
            chans[k].rx /\ chans[k].out = <<>> =>
                chans[k].buf = [i \in 1..Min(MAX_CHUNKS, fed - chans[k].from)
                                  |-> chans[k].from + i])
    /\ [][FanOutStep =>
            /\ subscribers' = subscribers
            /\ state' = "Running"
            /\ \A k \in Subscribed :
                 /\ chans[k].rx /\ Len(chans[k].buf) >= MAX_CHUNKS =>
                        chans'[k] = chans[k]
                 /\ HasRoom(chans[k]) =>
                        chans'[k].buf = Append(chans[k].buf, fed')
      ]_vars

\* C3 witness: of two subscribers offered MAX_CHUNKS + 1 chunks, the one that
\* never consumed holds the first MAX_CHUNKS and the other has been given all
C3_Witness ==
    \E k, l \in Subscribed :
        /\ chans[k].rx /\ chans[k].out = <<>>
        /\ chans[k].from = 0 /\ chans[l].from = 0
        /\ fed = MAX_CHUNKS + 1
        /\ chans[k].buf = [i \in 1..MAX_CHUNKS |-> i]
        /\ Accepted(chans[l]) = [i \in 1..(MAX_CHUNKS + 1) |-> i]

\* C4: Unsubscribe(id) removes exactly the subscribers whose id is id and
\* keeps the others in order (nothing changes when no subscriber has the id)
\* and leaves the Broadcaster running.  A stream whose subscriber was removed
\* is given no chunk fanned out afterwards and ends once its outbox is
\* empty; a stream only ends when its sender is gone.
C4_Unsubscribe ==
    /\ [](\A id \in Ids :
            /\ retain(subscribers, id) = SelectSeq(subscribers, LAMBDA sb : sb.id # id)
            /\ (\A i \in 1..Len(subscribers) : subscribers[i].id # id)
                   => retain(subscribers, id) = subscribers)
    /\ [](\A k \in 1..Len(chans) :
            k \notin Subscribed /\ chans[k].rx /\ ~chans[k].eos /\ state # "Stopping"
                => ENABLED poll_next(k))
    /\ [][/\ \A id \in Ids :
               HandleUnsubscribe(id) =>
                   /\ subscribers' = SelectSeq(subscribers, LAMBDA sb : sb.id # id)
                   /\ state' = "Running"
                   /\ chans' = chans
          /\ \A k \in 1..Len(chans) :
               /\ k \notin Subscribed /\ chans'[k].rx =>
                      Accepted(chans'[k]) = Accepted(chans[k])
               /\ k \notin Subscribed => k \notin {subscribers'[i].sender : i \in 1..Len(subscribers')}
               /\ chans'[k].eos /\ ~chans[k].eos =>
                      k \notin Subscribed /\ chans[k].buf = <<>>
          /\ FanOutStep =>
               \A k \in {subscribers'[i].sender : i \in 1..Len(subscribers')} :
                   HasRoom(chans[k]) => chans'[k].buf = Append(chans[k].buf, fed')
      ]_vars

\* C4 witness: after an Unsubscribe, with the Broadcaster still running, the
\* removed stream has ended without the chunk that the remaining subscriber
\* was given
C4_Witness ==
    /\ state = "Running"
    /\ \E k, l \in 1..Len(chans) :
        /\ k \notin Subscribed /\ l \in Subscribed
        /\ chans[k].from = 0 /\ chans[l].from = 0
        /\ chans[k].eos /\ chans[k].out = <<>>
        /\ chans[l].out = << <<"Ok", 1>> >>

\* every stream has ended or was dropped by its holder
AllStreamsEnded == \A k \in 1..Len(chans) : chans[k].eos \/ ~chans[k].rx

\* C5: the watchdog ticks every time_limit; once no chunk has been received
\* for more than time_limit, the next tick comes at most one interval after
\* the limit was passed, and that tick stops the Broadcaster.  A stopped
\* Broadcaster holds no sender, so every stream that is still held can be
\* polled to its end: it yields what its outbox holds and then
\* end-of-sequence.
C5_InactivityWatchdog ==
    /\ [](state = "Running" =>
            /\ now <= next_tick
            /\ next_tick - now <= time_limit
            /\ now - last_received > time_limit =>
                   next_tick <= last_received + 2 * time_limit)
    /\ [][state = "Running" /\ next_tick' # next_tick =>
            /\ state' = "Running" => next_tick' = next_tick + time_limit
            /\ now - last_received > time_limit => state' = "Stopping"]_vars
    /\ [](state = "Stopped" =>
            /\ subscribers = <<>>
            /\ \A k \in 1..Len(chans) :
                 chans[k].rx /\ ~chans[k].eos => ENABLED poll_next(k))
    /\ [][\A k \in 1..Len(chans) :
            state = "Stopped" /\ chans[k].buf = <<>> /\ chans'[k] # chans[k] =>
                chans'[k].eos \/ ~chans'[k].rx]_vars

\* C5 witness: the watchdog stopped a Broadcaster one interval after the
\* limit was passed, and the stream of its subscriber ended after yielding
\* the chunk it was given
C5_Witness ==
    /\ state = "Stopped"
    /\ fed = 1
    /\ now - last_received = 2 * time_limit
    /\ \E k \in 1..Len(chans) : chans[k].eos /\ chans[k].out = << <<"Ok", 1>> >>

\* C6: once the chunk stream has delivered an error or its end, the
\* Broadcaster is stopping, and every stream then ends (or is dropped by its
\* holder); every item any stream yields is Ok with a whole chunk of the
\* source.
C6_FatalUpstream ==
    /\ [](src \in {"error", "eos"} => state = "Stopping")
    /\ [](\A k \in 1..Len(chans) : \A i \in 1..Len(chans[k].out) :
            /\ chans[k].out[i][1] = "Ok"
            /\ chans[k].out[i][2] \in 1..fed)
    /\ (src \in {"error", "eos"} ~> state = "Stopped" /\ AllStreamsEnded)

\* C6 witness: the Broadcaster has stopped and two streams have ended, one
\* of them after yielding the chunk that was in its outbox
C6_Witness ==
    /\ state = "Stopped"
    /\ now = last_received
    /\ Len(chans) = 2
    /\ chans[1].eos /\ chans[2].eos
    /\ chans[1].out = << <<"Ok", 1>> >>

\* C7: last_received never decreases, equals the time of construction until
\* the actor starts, and equals the time of the fan-out after every fan-out,
\* whatever the subscribers did with the chunk.
C7_LastReceived ==
    /\ [](state = "Starting" => last_received = 0 /\ last_received = now)
    /\ [][last_received' >= last_received]_vars
    /\ [][FanOutStep => last_received' = now']_vars

\* C7 witness: time has passed, and the last chunk was fanned out now to
\* subscribers none of which took it (full outbox or closed receiver)
C7_Witness ==
    /\ state = "Running"
    /\ fed = MaxChunks
    /\ now > 0 /\ last_received = now
    /\ Len(subscribers) = 2
    /\ \A k \in Subscribed :
         /\ chans[k].from < fed - 1
         /\ \A i \in 1..Len(Accepted(chans[k])) : Accepted(chans[k])[i] # fed
    /\ \E k \in Subscribed : ~chans[k].rx
    /\ \E k \in Subscribed : chans[k].rx

\* C14: a stream yields end-of-sequence only when no subscriber of the list
\* holds its sender, and then only once its outbox is empty; it yields
\* nothing after that; every item it yields is Ok with a chunk of the source;
\* and once the sender is gone (by Unsubscribe or by the stop of the
\* Broadcaster) a stream that is polled does yield end-of-sequence.
C14_EndOfSequence ==
    /\ [](\A k \in 1..Len(chans) :
            /\ chans[k].eos => ~SenderAlive(k) /\ chans[k].buf = <<>>
            /\ \A i \in 1..Len(chans[k].out) :
                 /\ chans[k].out[i][1] = "Ok"
                 /\ chans[k].out[i][2] \in (chans[k].from + 1)..fed)
    /\ [][\A k \in 1..Len(chans) :
            /\ chans'[k].eos /\ ~chans[k].eos =>
                 /\ k \notin Subscribed
                 /\ chans[k].buf = <<>>
                 /\ chans'[k].out = chans[k].out
            /\ chans[k].eos => chans'[k] = chans[k]]_vars
    /\ \A k \in 1..MaxStreams :
         (k <= Len(chans) /\ ~SenderAlive(k)) ~>
             (k <= Len(chans) /\ (chans[k].eos \/ ~chans[k].rx))

\* C14 witness: with the Broadcaster still running, a stream whose
\* subscriber was removed has yielded the chunk it was given and then ended,
\* while the stream of a subscriber still in the list has not ended
C14_Witness ==
    /\ state = "Running"
    /\ Len(chans) = 2
    /\ 1 \notin Subscribed /\ 2 \in Subscribed
    /\ chans[1].eos /\ chans[1].out = << <<"Ok", 1>> >>
    /\ chans[2].rx /\ ~chans[2].eos /\ chans[2].buf = <<>>

\* a step in which a Subscribe request is handled: a channel is created
SubscribeStep == Len(chans') = Len(chans) + 1

\* a step in which a running Broadcaster removes subscribers
RemovalStep ==
    /\ state = "Running" /\ state' = "Running"
    /\ Len(subscribers') < Len(subscribers)

\* C15: every Subscribe adds an entry of its own at the end of the list,
\* with a new, empty outbox, also when the list already has an entry with the
\* same id; the entries of the list never share an outbox; a fan-out gives
\* the chunk to every entry with room, entries with equal ids included; and
\* an Unsubscribe removes every entry with its id at once, so that the
\* senders of all of them are dropped.
C15_NoDeduplication ==
    /\ [](\A i, j \in 1..Len(subscribers) :
            i # j => subscribers[i].sender # subscribers[j].sender)
    /\ [][SubscribeStep =>
            /\ Len(subscribers') = Len(subscribers) + 1
            /\ SubSeq(subscribers', 1, Len(subscribers)) = subscribers
            /\ subscribers'[Len(subscribers')].sender = Len(chans')
            /\ Len(chans') \notin Subscribed
            /\ chans'[Len(chans')].buf = <<>> /\ chans'[Len(chans')].out = <<>>
            /\ \A k \in 1..Len(chans) : chans'[k] = chans[k]]_vars
    /\ [][FanOutStep =>
            \A i, j \in 1..Len(subscribers) :
                /\ i # j /\ subscribers[i].id = subscribers[j].id
                /\ HasRoom(chans[subscribers[i].sender])
                /\ HasRoom(chans[subscribers[j].sender])
                => /\ chans'[subscribers[i].sender].buf =
                          Append(chans[subscribers[i].sender].buf, fed')
                   /\ chans'[subscribers[j].sender].buf =
                          Append(chans[subscribers[j].sender].buf, fed')]_vars
    /\ [][RemovalStep =>
            \E id \in Ids :
                /\ subscribers' = SelectSeq(subscribers, LAMBDA sb : sb.id # id)
                /\ \A i \in 1..Len(subscribers) :
                     subscribers[i].id = id =>
                         \A j \in 1..Len(subscribers') :
                             subscribers'[j].sender # subscribers[i].sender]_vars

\* C15 witness: two entries with the same id and different outboxes, each of
\* which holds the chunk that was fanned out
C15_Witness ==
    /\ Len(subscribers) = 2
    /\ subscribers[1].id = subscribers[2].id
    /\ subscribers[1].sender # subscribers[2].sender
    /\ \A i \in 1..2 : chans[subscribers[i].sender].buf = <<1>>

\* C16: a subscriber whose receiver is closed leaves the list only when
\* the Broadcaster stops or when an Unsubscribe removes the entries with its
\* id; dropping a stream changes neither the list nor the lifecycle; and a
\* fan-out with such a subscriber in the list leaves the list and the
\* lifecycle as they are, leaves the closed channel alone, gives the chunk to
\* every other subscriber with room and sets last_received to now.
C16_ClosedReceiver ==
    /\ [][\A i \in 1..Len(subscribers) :
            /\ ~chans[subscribers[i].sender].rx
            /\ \A j \in 1..Len(subscribers') : subscribers'[j] # subscribers[i]
            => \/ state = "Stopping" /\ state' = "Stopped"
               \/ /\ state' = "Running"
                  /\ fed' = fed
                  /\ subscribers' =
                       SelectSeq(subscribers, LAMBDA sb : sb.id # subscribers[i].id)]_vars
    /\ [][\A k \in 1..Len(chans) :
            chans[k].rx /\ ~chans'[k].rx =>
                subscribers' = subscribers /\ state' = state]_vars
    /\ [][FanOutStep /\ (\E k \in Subscribed : ~chans[k].rx) =>
            /\ subscribers' = subscribers
            /\ state' = "Running"
            /\ last_received' = now
            /\ \A k \in Subscribed :
                 /\ ~chans[k].rx => chans'[k] = chans[k]
                 /\ HasRoom(chans[k]) => chans'[k].buf = Append(chans[k].buf, fed')]_vars

\* C16 witness: after every chunk of the source was fanned out, the first
\* subscriber of the list has a closed receiver and is still listed, the
\* second has been given every chunk, and the Broadcaster is running
C16_Witness ==
    /\ state = "Running"
    /\ fed = MaxChunks
    /\ last_received = now
    /\ Len(subscribers) = 2
    /\ ~chans[subscribers[1].sender].rx
    /\ chans[subscribers[2].sender].rx
    /\ Accepted(chans[subscribers[2].sender]) = [i \in 1..MaxChunks |-> i]

\* a step in which the watchdog of a running Broadcaster ticks
WatchdogStep == state = "Running" /\ next_tick' # next_tick

\* a step in which the chunk stream delivers an error or its end
UpstreamEndStep == state = "Running" /\ src' # src

\* C17: no step handles two events: a step is at most one of a fan-out, a
\* Subscribe, a removal of subscribers, a watchdog tick and an upstream
\* error or end.  A subscriber in the list at the fan-out of chunk c is given
\* c if it has room; a stream created when c chunks were handled holds only
\* chunks after c; a stream that is not in the list at a fan-out is left as
\* it is; and an Unsubscribe leaves alone what the outboxes hold, so it takes
\* effect from the next chunk.
C17_EventSerialisation ==
    /\ [][/\ ~(FanOutStep /\ SubscribeStep)
          /\ ~(FanOutStep /\ subscribers' # subscribers)
          /\ ~(FanOutStep /\ WatchdogStep)
          /\ ~(FanOutStep /\ UpstreamEndStep)
          /\ ~(SubscribeStep /\ RemovalStep)
          /\ ~(SubscribeStep /\ WatchdogStep)
          /\ ~(SubscribeStep /\ UpstreamEndStep)
          /\ ~(RemovalStep /\ WatchdogStep)
          /\ ~(RemovalStep /\ UpstreamEndStep)
          /\ ~(WatchdogStep /\ UpstreamEndStep)]_vars
    /\ [](\A k \in 1..Len(chans) : \A i \in 1..Len(Accepted(chans[k])) :
            Accepted(chans[k])[i] > chans[k].from)
    /\ [][SubscribeStep =>
            /\ fed' = fed
            /\ chans'[Len(chans')].from = fed
            /\ Accepted(chans'[Len(chans')]) = <<>>
            /\ Len(chans') \in {subscribers'[i].sender : i \in 1..Len(subscribers')}]_vars
    /\ [][FanOutStep =>
            \A k \in 1..Len(chans) :
                /\ k \in Subscribed /\ HasRoom(chans[k]) =>
                       Accepted(chans'[k]) = Append(Accepted(chans[k]), fed')
                /\ k \notin Subscribed => chans'[k] = chans[k]]_vars
    /\ [][RemovalStep => chans' = chans /\ fed' = fed]_vars

\* C17 witness: the first stream was subscribed before chunk 1 and removed
\* before chunk 2, the second was subscribed between the two chunks: the
\* first has yielded chunk 1 only, the second holds chunk 2 only
C17_Witness ==
    /\ state = "Running"
    /\ fed = 2
    /\ Len(chans) = 2
    /\ chans[1].from = 0 /\ chans[2].from = 1
    /\ 1 \notin Subscribed /\ 2 \in Subscribed
    /\ chans[1].out = << <<"Ok", 1>> >> /\ chans[1].buf = <<>>
    /\ Accepted(chans[2]) = <<2>>

\* the position of a lifecycle state in Starting, Running, Stopping, Stopped
Rank(st) ==
    CASE st = "Starting" -> 0
      [] st = "Running" -> 1
      [] st = "Stopping" -> 2
      [] st = "Stopped" -> 3

\* C18: the lifecycle moves forward only, one state at a time; an upstream
\* error, the upstream end and a watchdog tick past the limit each take a
\* running Broadcaster to Stopping; a Broadcaster that is not running takes
\* no chunk and no Subscribe and no outbox is given a chunk; the only step
\* out of Stopping is the one to Stopped, which is always possible and drops
\* every sender; and a stopped Broadcaster holds no sender.
C18_Lifecycle ==
    /\ [](state \in {"Starting", "Running", "Stopping", "Stopped"})
    /\ [](state # "Running" =>
            /\ ~ENABLED HandleChunk
            /\ \A id \in Ids : ~ENABLED HandleSubscribe(id))
    /\ [](state = "Stopping" => ENABLED Stopped)
    /\ [](state = "Stopped" => subscribers = <<>>)
    /\ [][/\ Rank(state') >= Rank(state)
          /\ Rank(state') <= Rank(state) + 1]_vars
    /\ [][/\ UpstreamEndStep => state' = "Stopping"
          /\ WatchdogStep /\ now - last_received > time_limit => state' = "Stopping"]_vars
    /\ [][state # "Running" =>
            /\ fed' = fed
            /\ Len(chans') = Len(chans)
            /\ \A k \in 1..Len(chans) :
                 chans'[k].rx => Accepted(chans'[k]) = Accepted(chans[k])]_vars
    /\ [][state = "Stopping" =>
            state' = "Stopped" /\ subscribers' = <<>> /\ chans' = chans]_vars

\* C18 witness: the Broadcaster stopped with a chunk of the source left
\* unread; the stream of its subscriber yielded the one chunk that was
\* fanned out and ended
C18_Witness ==
    /\ state = "Stopped"
    /\ fed = 1 /\ fed < MaxChunks
    /\ Len(chans) = 1
    /\ chans[1].eos
    /\ chans[1].out = << <<"Ok", 1>> >>

\* C19: a watchdog tick stops the Broadcaster only when more than
\* time_limit has elapsed since last_received; a tick at which at most
\* time_limit has elapsed leaves the Broadcaster running and changes neither
\* the subscriber list nor any channel nor last_received; and such a tick
\* can always be taken when it is due.
C19_NoPrematureStop ==
    /\ [](state = "Running" /\ now >= next_tick /\ now - last_received <= time_limit
            => ENABLED (check_timeout /\ state' = "Running"))
    /\ [][WatchdogStep /\ state' # "Running" =>
            now - last_received > time_limit]_vars
    /\ [][WatchdogStep /\ now - last_received <= time_limit =>
            /\ state' = "Running"
            /\ subscribers' = subscribers
            /\ chans' = chans
            /\ last_received' = last_received
            /\ fed' = fed]_vars

\* C19 witness: a tick was taken when exactly time_limit had elapsed since
\* the chunk in the subscriber's outbox was fanned out, and the Broadcaster
\* is running
C19_Witness ==
    /\ state = "Running"
    /\ fed = 1
    /\ now - last_received = time_limit
    /\ next_tick = now + time_limit
    /\ Len(subscribers) = 1
    /\ chans[subscribers[1].sender].buf = <<1>>

\* C20: a step that handles a Subscribe or an Unsubscribe changes the
\* subscriber list and, for a Subscribe, adds a channel, and nothing else:
\* last_received, the clock and the watchdog's deadline stay as they are, so
\* whether the watchdog finds the limit passed does not change, and every
\* channel that existed before the step is left as it was.
C20_SubscriptionFrame ==
    /\ [][SubscribeStep \/ (state = "Running" /\ state' = "Running"
                              /\ subscribers' # subscribers) =>
            /\ last_received' = last_received
            /\ now' = now
            /\ next_tick' = next_tick
            /\ time_limit' = time_limit
            /\ (now' - last_received' > time_limit') = (now - last_received > time_limit)
            /\ fed' = fed /\ src' = src
            /\ \A k \in 1..Len(chans) : chans'[k] = chans[k]]_vars
    /\ [][\A id \in Ids :
            HandleSubscribe(id) \/ HandleUnsubscribe(id) =>
                /\ last_received' = last_received
                /\ \A k \in 1..Len(chans) : chans'[k] = chans[k]]_vars

\* C20 witness: time has passed since the last chunk; the subscriber that
\* was given it has been removed and its outbox still holds it, and a
\* subscriber added after the chunk has an empty outbox
C20_Witness ==
    /\ state = "Running"
    /\ fed = 1
    /\ now > last_received
    /\ Len(chans) = 2
    /\ 1 \notin Subscribed /\ 2 \in Subscribed
    /\ chans[1].rx /\ chans[1].buf = <<1>>
    /\ chans[2].from = 1 /\ Accepted(chans[2]) = <<>>

\* the channels the subscriber list names after the step
SubscribedNext == {subscribers'[i].sender : i \in 1..Len(subscribers')}

\* C21: the step that drops the sender of a stream (an Unsubscribe or the
\* stop of the Broadcaster) leaves the stream's outbox as it is; from then
\* on, while the stream is held, what it has yielded followed by what its
\* outbox holds never changes, each item it yields is the head of the outbox,
\* and it yields end-of-sequence only from an empty outbox and without
\* changing what it yielded; and such a stream can always be polled.  So a
\* holder that keeps polling is given every queued chunk, in order, and then
\* end-of-sequence.
C21_NoLossOnTeardown ==
    /\ [](\A k \in 1..Len(chans) :
            /\ ~SenderAlive(k) /\ chans[k].rx /\ ~chans[k].eos
            /\ state # "Stopping"
            => ENABLED (poll_next(k) /\
                        IF chans[k].buf # <<>>
                        THEN chans'[k].out =
                                 Append(chans[k].out, <<"Ok", Head(chans[k].buf)>>)
                        ELSE chans'[k].eos))
    /\ [][\A k \in 1..Len(chans) :
            /\ k \in Subscribed /\ k \notin SubscribedNext /\ chans[k].rx =>
                   chans'[k] = chans[k]
            /\ k \notin Subscribed /\ chans'[k].rx =>
                   /\ Delivered(chans'[k]) = Delivered(chans[k])
                   /\ Len(chans'[k].out) \in {Len(chans[k].out), Len(chans[k].out) + 1}
                   /\ chans'[k].eos /\ ~chans[k].eos =>
                          chans[k].buf = <<>> /\ chans'[k].out = chans[k].out]_vars

\* C21 witness: the Broadcaster has stopped; one stream has yielded the
\* chunk that was in its outbox and then ended, the other is still held and
\* its outbox still holds the chunk
C21_Witness ==
    /\ state = "Stopped"
    /\ Len(chans) = 2
    /\ chans[1].eos /\ chans[1].out = << <<"Ok", 1>> >>
    /\ chans[2].rx /\ ~chans[2].eos
    /\ chans[2].out = <<>> /\ chans[2].buf = <<1>>

(***************************************************************************)
(* Properties of the collector.                                            *)
(***************************************************************************)
\* the UpdateSchedules messages sent for channel c, in send order
Updates(c) ==
    SelectSeq(epg, LAMBDA m : m.type = "UpdateSchedules" /\ m.channel = c)

\* the positions in epg of the messages of the given type sent for channel c
Positions(c, type) ==
    {i \in 1..Len(epg) : epg[i].type = type /\ epg[i].channel = c}

RECURSIVE Flatten(_)
Flatten(ms) ==
    IF ms = <<>> THEN <<>> ELSE Head(ms).sections \o Flatten(Tail(ms))

\* the output of channel c's pipeline has been read to its end
OutputRead(c) ==
    \/ c < chan_idx
    \/ c = chan_idx /\ cpc \in {"drop", "await", "flush"}

\* C8: the UpdateSchedules messages of a channel, concatenated in send
\* order, are the sections read so far less the batch being filled, and are
\* all the sections once the output is read to its end; every message but
\* the last of a channel holds exactly UPDATE_CHUNK_SIZE sections, the last
\* holds between 1 and UPDATE_CHUNK_SIZE, so none is empty.
C8_Batching ==
    \A c \in 1..NumChannels :
        LET ups == Updates(c)
            n == Len(lines[c])
        IN /\ \A i \in 1..Len(ups) :
                /\ Len(ups[i].sections) \in 1..UPDATE_CHUNK_SIZE
                /\ i < Len(ups) => Len(ups[i].sections) = UPDATE_CHUNK_SIZE
           /\ c = chan_idx /\ cpc = "read" =>
                /\ Flatten(ups) \o sections = lines[c]
                /\ Len(sections) < UPDATE_CHUNK_SIZE
           /\ OutputRead(c) =>
                /\ Flatten(ups) = lines[c]
                /\ Len(ups) = (n + UPDATE_CHUNK_SIZE - 1) \div UPDATE_CHUNK_SIZE

\* C8 witness: a channel whose output of 2 * UPDATE_CHUNK_SIZE + 1 sections
\* was read to its end: two full messages and one of a single section
C8_Witness ==
    \E c \in 1..NumChannels :
        /\ OutputRead(c)
        /\ Len(lines[c]) = 2 * UPDATE_CHUNK_SIZE + 1
        /\ Len(Updates(c)) = 3
        /\ Len(Updates(c)[3].sections) = 1

\* C9: a channel has one FlushSchedules message once it is completed and
\* none before; the message comes after every UpdateSchedules of the
\* channel, is sent when the pipeline is dropped and the pump task has
\* ended, and lists the distinct service triples of the channel's sections,
\* each once.
C9_Flush ==
    /\ [](\A c \in 1..NumChannels :
            LET fl == Positions(c, "FlushSchedules")
            IN /\ Cardinality(fl) = IF c < chan_idx THEN 1 ELSE 0
               /\ \A i \in fl :
                    /\ \A j \in Positions(c, "UpdateSchedules") : j < i
                    /\ \A a, b \in DOMAIN epg[i].triples :
                           a # b => epg[i].triples[a] # epg[i].triples[b]
                    /\ {epg[i].triples[a] : a \in DOMAIN epg[i].triples} =
                           {<<lines[c][k].original_network_id,
                              lines[c][k].transport_stream_id,
                              lines[c][k].service_id>> : k \in DOMAIN lines[c]}
                    /\ Flatten(Updates(c)) = lines[c])
    /\ [][Len(epg') > Len(epg) /\ epg'[Len(epg')].type = "FlushSchedules" =>
            /\ ~pipeline
            /\ chan_idx \notin pumps
            /\ epg'[Len(epg')].channel = chan_idx
            /\ chan_idx' = chan_idx + 1]_vars

\* C9 witness: the run is done; the first channel's FlushSchedules lists
\* three triples after two UpdateSchedules messages, the second channel's
\* lists none
C9_Witness ==
    /\ cpc = "done"
    /\ \E i \in Positions(1, "FlushSchedules") : Len(epg[i].triples) = 3
    /\ Cardinality(Positions(1, "UpdateSchedules")) = 2
    /\ \E i \in Positions(2, "FlushSchedules") : epg[i].triples = <<>>

\* C10: the collector holds at most one tuner stream; the pipeline is
\* dropped before the pump task is awaited, and StartStreaming for the next
\* channel is issued only when the pump task of the channel before has
\* ended and its tuner is released.
C10_TunerRelease ==
    /\ [](Cardinality(tuners) <= 1)
    /\ [](cpc \in {"await", "flush"} => ~pipeline)
    /\ [](cpc \in {"start", "flush", "done"} => tuners = {} /\ pumps = {})
    /\ [][cpc = "start" /\ cpc' = "render" =>
            /\ pumps = {}
            /\ tuners = {}
            /\ tuners' = {chan_idx}]_vars
    /\ [][cpc = "await" /\ cpc' # "await" => ~pipeline /\ chan_idx \notin pumps']_vars

\* C10 witness: the second channel's stream is the only one held, after the
\* first channel was completed with sections read
C10_Witness ==
    /\ chan_idx = 2
    /\ cpc = "read"
    /\ tuners = {2}
    /\ pumps = {2}
    /\ Len(lines[1]) > 0
    /\ Cardinality(Positions(1, "FlushSchedules")) = 1

\* C11: a failure of StartStreaming, of the rendering, of the spawn or of a
\* read or parse ends the run with the error: the step that fails sends
\* nothing, and afterwards no message is sent, no tuner is asked for and the
\* loop does not move on.  The failing channel has no FlushSchedules, its
\* UpdateSchedules are the full batches read before the failure, and the
\* channels after it have neither a message nor a section read.
C11_ErrorPolicy ==
    /\ [](cpc = "failed" =>
            /\ collect_schedules = <<"Err">>
            /\ ~ENABLED StartStreaming
            /\ Positions(chan_idx, "FlushSchedules") = {}
            /\ Flatten(Updates(chan_idx)) =
                   SubSeq(lines[chan_idx], 1,
                          (Len(lines[chan_idx]) \div UPDATE_CHUNK_SIZE) * UPDATE_CHUNK_SIZE)
            /\ \A c \in (chan_idx + 1)..NumChannels :
                   /\ lines[c] = <<>>
                   /\ \A i \in 1..Len(epg) : epg[i].channel # c)
    /\ [][cpc' = "failed" /\ cpc # "failed" =>
            /\ cpc \in {"start", "render", "spawn", "read"}
            /\ epg' = epg
            /\ chan_idx' = chan_idx]_vars
    /\ [][cpc = "failed" =>
            /\ cpc' = "failed"
            /\ epg' = epg
            /\ chan_idx' = chan_idx
            /\ lines' = lines
            /\ tuners' \subseteq tuners]_vars

\* C11 witness: the first channel failed in its read loop after one full
\* batch was sent and with a section in the batch being filled
C11_Witness ==
    /\ cpc = "failed"
    /\ chan_idx = 1
    /\ Len(lines[1]) = UPDATE_CHUNK_SIZE + 1
    /\ Len(Updates(1)) = 1
    /\ sections # <<>>
    /\ Len(epg) = 1

\* the number of sections read in the channels 1..c
RECURSIVE SectionsRead(_)
SectionsRead(c) == IF c = 0 THEN 0 ELSE Len(lines[c]) + SectionsRead(c - 1)

\* C12: a successful run of collect_schedules returns the total number of
\* sections read, the sum of the per-channel counts.
C12_ReturnsTotal ==
    cpc = "done" => collect_schedules = <<"Ok", SectionsRead(NumChannels)>>

(***************************************************************************)
(* Properties of the feeder.                                               *)
(***************************************************************************)
\* the network ids of the services of the query
QueriedNids == {services[i].nid : i \in 1..Len(services)}

\* the first service of the query with network id n
FirstService(n) ==
    services[CHOOSE i \in 1..Len(services) :
                /\ services[i].nid = n
                /\ \A j \in 1..(i - 1) : services[j].nid # n]

\* the service ids of the services with network id n, in query order
SidsInQueryOrder(n) ==
    LET svs == SelectSeq(services, LAMBDA sv : sv.nid = n)
    IN [i \in 1..Len(svs) |-> svs[i].sid]

\* the channel of network id n: the metadata of the first service, the
\* service ids in query order, and the given excluded services
GroupedChannel(n, xsids) ==
    [name |-> FirstService(n).channel.name,
     channel_type |-> FirstService(n).channel.channel_type,
     channel |-> FirstService(n).channel.channel,
     extra_args |-> FirstService(n).channel.extra_args,
     services |-> SidsInQueryOrder(n),
     excluded_services |-> xsids]

\* C13 as stated: the channel list has one EpgChannel per distinct network
\* id, with the service ids of that network id in query order, the
\* name, channel_type, channel and extra_args of the first service seen for
\* it, and the excluded_services of that first service.
C13_GroupingAsStated ==
    fpc = "collect" =>
        \E order \in IntoVec(QueriedNids) :
            channels = [i \in 1..Len(order) |->
                          GroupedChannel(order[i],
                              FirstService(order[i]).channel.excluded_services)]

\* C13 amended: as stated, but excluded_services of every channel is empty,
\* whatever the first service carries.
C13_Grouping ==
    fpc = "collect" =>
        \E order \in IntoVec(QueriedNids) :
            channels = [i \in 1..Len(order) |->
                          GroupedChannel(order[i], <<>>)]

\* C13 witness: three services of two network ids were grouped into two
\* channels; the network id with two services took its metadata from the
\* first of them, which carries excluded services, and not from the second
C13_Witness ==
    /\ fpc = "collect"
    /\ Len(services) = 3
    /\ Len(channels) = 2
    /\ \E n \in QueriedNids :
         /\ Len(SidsInQueryOrder(n)) = 2
         /\ SidsInQueryOrder(n) = <<2, 1>>
         /\ FirstService(n).channel.excluded_services # <<>>
         /\ \E i \in 1..Len(services) :
              services[i].nid = n /\ services[i].channel # FirstService(n).channel

=============================================================================
